---- MODULE Spec2Model ----
(***************************************************************************)
(* State-machine model of sat-bundleadjust's track ranking/selection       *)
(* (feature_tracks/ft_ranking.py), UTM match-consistency filter            *)
(* (feature_tracks/ft_sat.py) and bundle-adjustment control loop           *)
(* (bundle_adjust/ba_pipeline.py).                                         *)
(*                                                                         *)
(* Floating-point quantities are fixed-point integers with Scale units per *)
(* 1.0; np.nan is the sentinel NaN.  Matrices are functions over 0-based   *)
(* index ranges, like the numpy arrays they model.                         *)
(***************************************************************************)
EXTENDS Integers, Sequences, FiniteSets, TLC

VARIABLES
    \* ---- feature_tracks/ft_ranking.py ----
    C,                   \* correspondence matrix: 2 rows per camera x tracks
    C_reproj,            \* per-observation reprojection error (camera x track)
    K,                   \* maximum number of rounds of select_best_tracks
    pc,                  \* position of the running function
    A,                   \* connectivity matrix
    camera_weights,      \* w_cam of compute_camera_weights
    ranked_track_indices,\* track id -> position in the ranking
    updated_C,           \* working copy of C in select_best_tracks
    remaining_T,         \* candidate pool
    S,                   \* selected tracks, in selection order
    Sk,                  \* tracks selected in the current round
    Ik,                  \* cameras included in the current round's tree
    nodes_last_layer_Hk, \* frontier of the current layer
    inverted_track_list, \* camera -> ranked list of its tracks
    Croot,               \* root camera of the current round
    k,                   \* round counter
    l,                   \* layer counter
    iterate_current_tree,\* flag of the inner while loop
    \* ---- feature_tracks/ft_sat.py ----
    matches_arg,         \* pairwise_matches as passed by the caller
    pairwise_matches,    \* rows (kp_i, kp_j, im_i, im_j)
    all_utm_distances,   \* planar distance of each row
    n_init,              \* number of rows at entry
    utm_elbow,           \* value returned by ba_core.get_elbow_value
    utm_thr,             \* distance threshold
    elbow_calls,         \* number of calls of ba_core.get_elbow_value
    error,               \* exception raised, "none" when there is none
    utm_i,               \* utm coordinates of the keypoints of image i
    utm_j,               \* utm coordinates of the keypoints of image j
    utm_polygon,         \* exterior coordinates of the intersection polygon
    matches_ij_poly,     \* value returned by the external matcher
    matches_ij,          \* value returned by match_kp_within_utm_polygon
    \* ---- bundle_adjust/ba_pipeline.py ----
    cam_ind,             \* camera index of each observation
    pts_ind,             \* point (track) index of each observation
    ba_e,                \* residual of each observation after the solver
    loss,                \* loss of the last solver run
    n_solver_runs,       \* number of least_squares calls
    n_cleanings,         \* number of completed clean_outlier_obs calls
    elbow_value,         \* elbow_value of clean_outlier_obs
    thr,                 \* thr passed to ba_core.remove_outlier_obs
    res_status,          \* outcome of the last call of least_squares
    n_adj,               \* number of cameras already adjusted
    n_new,               \* number of cameras to adjust
    P_adj,               \* cameras whose projection matrix file is written
    RPC_adj,             \* cameras whose camera model file is written
    rmse_printed         \* cameras whose fitting error is printed

rankVars_but_pc == <<C, C_reproj, K, A, camera_weights, ranked_track_indices>>
rankVars == <<rankVars_but_pc, pc>>
selVars  == <<updated_C, remaining_T, S, Sk, Ik, nodes_last_layer_Hk,
              inverted_track_list, Croot, k, l, iterate_current_tree>>
matchVars == <<utm_i, utm_j, utm_polygon, matches_ij_poly, matches_ij>>
filtVars_but_error == <<matches_arg, pairwise_matches, all_utm_distances,
                        n_init, utm_elbow, utm_thr, elbow_calls, matchVars>>
filtVars == <<filtVars_but_error, error>>
outVars  == <<n_adj, n_new, P_adj, RPC_adj, rmse_printed>>
pipeVars == <<cam_ind, pts_ind, ba_e, loss, n_solver_runs, n_cleanings,
              elbow_value, thr, res_status, outVars>>
vars     == <<rankVars, selVars, filtVars, pipeVars>>

----------------------------------------------------------------------------
(* Bounds of the model *)

\* fixed-point resolution: Scale units per 1.0
Scale == 1000
\* largest per-observation reprojection error drawn, in whole error units
MaxErr == 2
\* a reprojection error, in whole error units, so large that exp(-error) is
\* below half the spacing of the doubles at 1 (2^-53 is about e^-36.7): the
\* sum n + exp(-error), n >= 1, is the double n, as it is n in fixed point
LargeErr == 40
\* largest K drawn for select_best_tracks
MaxK == 2

----------------------------------------------------------------------------
(* numpy helpers *)

NaN == -1

IsNaN(x) == x = NaN

Range0(n) == 0..(n - 1)

\* np.sum of a vector
RECURSIVE SumSeq(_)
SumSeq(v) == IF v = <<>> THEN 0 ELSE Head(v) + SumSeq(Tail(v))

\* the elements of set X (of naturals) in ascending order, as a sequence
RECURSIVE SortedSeq(_)
SortedSeq(X) ==
    IF X = {} THEN <<>>
    ELSE LET m == CHOOSE x \in X : \A y \in X : x <= y
         IN  <<m>> \o SortedSeq(X \ {m})

SeqToSet(s) == {s[n] : n \in 1..Len(s)}

\* floor of the square root, by bisection between lo and hi
RECURSIVE ISqrtBetween(_, _, _)
ISqrtBetween(x, lo, hi) ==
    IF lo >= hi THEN lo
    ELSE LET mid == (lo + hi + 1) \div 2
         IN  IF mid * mid <= x THEN ISqrtBetween(x, mid, hi)
             ELSE ISqrtBetween(x, lo, mid - 1)
ISqrt(x) == ISqrtBetween(x, 0, IF x < 46340 THEN x ELSE 46340)

\* fixed-point square root: sqrt(v / Scale) * Scale
FxSqrt(v) == ISqrt(v * Scale)

\* e^-n in millionths, n = 0, 1, 2, ...; below one millionth it is 0
ExpMicro == <<1000000, 367879, 135335, 49787, 18316, 6738, 2479, 912, 335,
              123, 45, 17, 6, 2, 1>>
ExpAt(n) == IF n < Len(ExpMicro) THEN (ExpMicro[n + 1] * Scale) \div 1000000 ELSE 0

\* np.exp(-x) for x >= 0 in fixed point: e^-n at the integers, interpolated
\* linearly between them (monotone non-increasing, range 0..Scale); NaN is kept
ExpNeg(x) ==
    IF IsNaN(x) THEN NaN
    ELSE LET n == x \div Scale
             f == x % Scale
         IN  ExpAt(n) - (((ExpAt(n) - ExpAt(n + 1)) * f) \div Scale)

\* the non-NaN entries of a vector
RECURSIVE DropNaN(_)
DropNaN(v) ==
    IF v = <<>> THEN <<>>
    ELSE IF IsNaN(Head(v)) THEN DropNaN(Tail(v))
    ELSE <<Head(v)>> \o DropNaN(Tail(v))

HasNaN(v) == \E n \in 1..Len(v) : IsNaN(v[n])

\* np.nanmean of a vector: the mean of the non-NaN entries, NaN when there is
\* none
NanMean(v) ==
    LET def == DropNaN(v)
    IN  IF def = <<>> THEN NaN ELSE SumSeq(def) \div Len(def)

\* np.mean of a non-empty vector: NaN as soon as one entry is
Mean(v) == IF HasNaN(v) THEN NaN ELSE SumSeq(v) \div Len(v)

\* sum of the squared deviations from m, in fixed point
RECURSIVE SumSqDev(_, _)
SumSqDev(v, m) ==
    IF v = <<>> THEN 0
    ELSE (((Head(v) - m) * (Head(v) - m)) \div Scale) + SumSqDev(Tail(v), m)

\* np.std (population standard deviation) of a non-empty vector
Std(v) ==
    IF HasNaN(v) THEN NaN
    ELSE FxSqrt(SumSqDev(v, SumSeq(v) \div Len(v)) \div Len(v))

\* np.argmax of a 0-based vector of n >= 1 entries: the first NaN if there is
\* one, else the first maximum
ArgMax(v, n) ==
    IF \E i \in Range0(n) : IsNaN(v[i])
    THEN CHOOSE i \in Range0(n) : IsNaN(v[i]) /\ \A j \in Range0(i) : ~IsNaN(v[j])
    ELSE CHOOSE i \in Range0(n) :
             /\ \A j \in Range0(n) : v[j] <= v[i]
             /\ \A j \in Range0(i) : v[j] < v[i]

----------------------------------------------------------------------------
(* shapes of a correspondence matrix *)

\* C.shape[0], C.shape[1]
Shape0(M) == Cardinality(DOMAIN M)
Shape1(M) == Cardinality(DOMAIN M[0])

\* n_cam = int(C.shape[0]/2)
NCam(M) == Shape0(M) \div 2

\* cameras and track columns of a correspondence matrix
CamsOf(M) == Range0(NCam(M))
TracksOf(M) == Range0(Shape1(M))

\* connectivity_matrix=None
NoMatrix == <<>>

----------------------------------------------------------------------------
(* build_connectivity_matrix *)

\* obs_im = 1*np.invert(np.isnan(C[2*im,:]))
ObsRow(M, im) == [t \in TracksOf(M) |-> IF IsNaN(M[2 * im][t]) THEN 0 ELSE 1]

\* n_matches = np.sum(np.sum(np.vstack((obs_im1, obs_im2)), axis=0) == 2)
NMatches(M, im1, im2) ==
    Cardinality({t \in TracksOf(M) : ObsRow(M, im1)[t] + ObsRow(M, im2)[t] = 2})

\* a slip that forgets A[im2,im1] = n_matches
build_connectivity_matrix_upper(M) ==
    [i \in CamsOf(M) |-> [j \in CamsOf(M) |->
        IF i < j THEN NMatches(M, i, j) ELSE 0]]

\* A starts as np.zeros; for im1 < im2: A[im1,im2] = A[im2,im1] = n_matches
build_connectivity_matrix(M) ==
    [i \in CamsOf(M) |-> [j \in CamsOf(M) |->
        IF i < j THEN NMatches(M, i, j)
        ELSE IF j < i THEN NMatches(M, j, i)
        ELSE 0]]

----------------------------------------------------------------------------
(* compute_camera_weights *)

\* a slip that sums the matches instead of counting the connected cameras
nC_matches(conn, i) ==
    SumSeq([n \in 1..Cardinality(DOMAIN conn[i]) |-> conn[i][n - 1]])

\* nC_i = np.sum(A[i, :]>0)
nC(conn, i) == Cardinality({j \in DOMAIN conn[i] : conn[i][j] > 0})

\* indices_of_tracks_seen_in_current_cam, ascending
TracksSeen(M, i) == SortedSeq({t \in TracksOf(M) : ~IsNaN(M[2 * i][t])})

\* column t of the error table, C_reproj[:, t]
RECURSIVE ColumnFrom(_, _, _)
ColumnFrom(Cr, t, c) ==
    IF c >= Shape0(Cr) THEN <<>> ELSE <<Cr[c][t]>> \o ColumnFrom(Cr, t, c + 1)
Column(Cr, t) == ColumnFrom(Cr, t, 0)

\* np.nanmean(C_reproj[:, indices], axis=0): one mean per track of indices
RECURSIVE NanMeanColumns(_, _)
NanMeanColumns(Cr, indices) ==
    IF indices = <<>> THEN <<>>
    ELSE <<NanMean(Column(Cr, Head(indices)))>> \o NanMeanColumns(Cr, Tail(indices))

\* costC_i = avg_cost + 3. * std_cost when nC_i > 0, else 0.
costC(M, Cr, conn, i) ==
    IF nC(conn, i) > 0
    THEN LET avg_reproj_err_tracks_seen == NanMeanColumns(Cr, TracksSeen(M, i))
             avg_cost == Mean(avg_reproj_err_tracks_seen)
             std_cost == Std(avg_reproj_err_tracks_seen)
         IN  IF IsNaN(avg_cost) \/ IsNaN(std_cost) THEN NaN
             ELSE avg_cost + 3 * std_cost
    ELSE 0

\* a slip that gives an unconnected camera no exponential term
CameraWeightZeroIsolated(M, Cr, conn, i) ==
    IF nC(conn, i) = 0 THEN 0
    ELSE LET e == ExpNeg(costC(M, Cr, conn, i))
         IN  IF IsNaN(e) THEN NaN ELSE nC(conn, i) * Scale + e

\* a slip that multiplies the degree by the exponential instead of adding it
CameraWeightScaled(M, Cr, conn, i) ==
    LET e == ExpNeg(costC(M, Cr, conn, i))
    IN  IF IsNaN(e) THEN NaN ELSE (nC(conn, i) * e)

\* nC_i + np.exp( - costC_i )
CameraWeight(M, Cr, conn, i) ==
    LET e == ExpNeg(costC(M, Cr, conn, i))
    IN  IF IsNaN(e) THEN NaN ELSE nC(conn, i) * Scale + e

compute_camera_weights(M, Cr, connectivity_matrix) ==
    LET conn == IF connectivity_matrix = NoMatrix
                THEN build_connectivity_matrix(M)
                ELSE connectivity_matrix
    IN  [i \in CamsOf(M) |-> CameraWeight(M, Cr, conn, i)]

----------------------------------------------------------------------------
(* order_tracks, get_inverted_track_list *)

\* tracks_cost = np.nanmean(C_reproj, axis=0)
tracks_cost(Cr, t) == NanMean(Column(Cr, t))

\* tracks_len = (np.sum(~np.isnan(C), axis=0)/2).astype(int)
tracks_len(M, t) == Cardinality({r \in DOMAIN M : ~IsNaN(M[r][t])}) \div 2

\* a slip that orders by cost before length
KeyLessCostFirst(len, cost, a, b) ==
    \/ /\ ~IsNaN(cost[a])
       /\ ~IsNaN(cost[b])
       /\ cost[a] > cost[b]
    \/ /\ cost[a] = cost[b]
       /\ len[a] < len[b]

\* track a sorts strictly before track b in np.argsort(track_values,
\* order=['length', 'cost']) with track_values = zip(tracks_len, -tracks_cost);
\* a NaN cost is left unordered against the costs of the same length
KeyLess(len, cost, a, b) ==
    \/ len[a] < len[b]
    \/ /\ len[a] = len[b]
       /\ ~IsNaN(cost[a])
       /\ ~IsNaN(cost[b])
       /\ cost[a] > cost[b]

\* the dicts order_tracks can return: zip(argsort(...)[::-1], arange(N)) gives
\* track -> position, the sort reversed; np.argsort's default kind is not
\* stable, so tracks with equal keys come in any order
order_tracks(M, Cr) ==
    LET N    == Shape1(M)
        \* (@@ <<>> has TLC evaluate the vector once)
        len  == [t \in Range0(N) |-> tracks_len(M, t)] @@ <<>>
        cost == [t \in Range0(N) |-> tracks_cost(Cr, t)] @@ <<>>
    IN  {p \in [Range0(N) -> Range0(N)] :
            /\ \A a, b \in Range0(N) : a # b => p[a] # p[b]
            /\ \A a, b \in Range0(N) : KeyLess(len, cost, a, b) => p[a] > p[b]}

\* sorted(indices_of_tracks_seen_in_current_cam, key=ranked_track_indices[idx])
RECURSIVE SortedByRank(_, _)
SortedByRank(X, ranked) ==
    IF X = {} THEN <<>>
    ELSE LET m == CHOOSE x \in X : \A y \in X : ranked[x] <= ranked[y]
         IN  <<m>> \o SortedByRank(X \ {m}, ranked)

\* a slip that lists every track for every camera, observed or not
get_inverted_track_list_all(M, ranked) ==
    [i \in CamsOf(M) |-> SortedByRank(TracksOf(M), ranked)]

\* lines 118-127: for each camera, the tracks it observes, best rank first
get_inverted_track_list(M, ranked) ==
    [i \in CamsOf(M) |->
        SortedByRank({t \in TracksOf(M) : ~IsNaN(M[2 * i][t])}, ranked)]

----------------------------------------------------------------------------
(* inputs *)

\* the pixel coordinate stored in row r, column t of an observed cell
Pixel(r, t) == 10 * t + r

\* the correspondence matrix of a camera x track observation table: the two
\* rows of a camera are populated together
MkC(obs) ==
    LET n == Cardinality(DOMAIN obs)
        m == Cardinality(DOMAIN obs[0])
    IN  [r \in Range0(2 * n) |-> [t \in Range0(m) |->
            IF obs[r \div 2][t] THEN Pixel(r, t) ELSE NaN]]

ObsMatrices(n, m) == [Range0(n) -> [Range0(m) -> BOOLEAN]]

\* the observations whose track can be triangulated (two observations at least)
Triangulable(M) ==
    {ct \in CamsOf(M) \X TracksOf(M) :
        /\ ~IsNaN(M[2 * ct[1]][ct[2]])
        /\ Cardinality({c \in CamsOf(M) : ~IsNaN(M[2 * c][ct[2]])}) >= 2}

\* the error tables reprojection_error_from_C can return for M: NaN where C
\* has no observation and where the track has no 3-D point, else the
\* observation's error, here 0 or MaxErr
reprojection_error_from_C(M) ==
    {[c \in CamsOf(M) |-> [t \in TracksOf(M) |->
        IF <<c, t>> \in hi THEN MaxErr * Scale
        ELSE IF <<c, t>> \in Triangulable(M) THEN 0
        ELSE NaN]] : hi \in SUBSET Triangulable(M)}

\* shapes (cameras, tracks) of the matrices the ranking functions are applied to
RankShapes == {<<3, 3>>}

\* the 3-camera/4-track scenario: track 0 is seen by all cameras, track t > 0
\* by camera 0 and camera partner[t]
ScenarioObs ==
    {[c \in Range0(3) |-> [t \in Range0(4) |->
        t = 0 \/ c = 0 \/ c = partner[t]]] : partner \in [1..3 -> {1, 2}]}

\* select_best_tracks has not been called
SelIdle ==
    /\ updated_C = NoMatrix
    /\ remaining_T = {}
    /\ S = <<>>
    /\ Sk = <<>>
    /\ Ik = <<>>
    /\ nodes_last_layer_Hk = <<>>
    /\ inverted_track_list = <<>>
    /\ Croot = 0
    /\ k = 0
    /\ l = 0
    /\ iterate_current_tree = FALSE

\* match_kp_within_utm_polygon is not running
MatchIdle ==
    /\ utm_i = <<>>
    /\ utm_j = <<>>
    /\ utm_polygon = <<>>
    /\ matches_ij_poly = [is_None |-> FALSE, rows |-> <<>>]
    /\ matches_ij = [is_None |-> FALSE, rows |-> <<>>]

\* the filter of ft_sat.py is not running
FiltIdle ==
    /\ matches_arg = <<>>
    /\ pairwise_matches = <<>>
    /\ all_utm_distances = <<>>
    /\ n_init = 0
    /\ utm_elbow = 0
    /\ utm_thr = 0
    /\ elbow_calls = 0
    /\ error = "none"
    /\ MatchIdle

\* no pipeline object exists
PipeFresh ==
    /\ cam_ind = <<>>
    /\ pts_ind = <<>>
    /\ ba_e = <<>>
    /\ loss = "none"
    /\ n_solver_runs = 0
    /\ n_cleanings = 0
    /\ elbow_value = 0
    /\ thr = 0
    /\ res_status = "none"
    /\ P_adj = {}
    /\ RPC_adj = {}
    /\ rmse_printed = {}

PipeIdle ==
    /\ PipeFresh
    /\ n_adj = 0
    /\ n_new = 0

----------------------------------------------------------------------------
(* the ranking functions applied to an input *)

InitRank ==
    /\ \E obs \in UNION {ObsMatrices(sh[1], sh[2]) : sh \in RankShapes} \cup ScenarioObs :
           C = MkC(obs)
    /\ C_reproj \in reprojection_error_from_C(C)
    /\ K = 0
    /\ pc = "input"
    /\ A = NoMatrix
    /\ camera_weights = <<>>
    /\ ranked_track_indices = <<>>
    /\ SelIdle
    /\ FiltIdle
    /\ PipeIdle

\* A = build_connectivity_matrix(C)
Call_build_connectivity_matrix ==
    /\ pc = "input"
    /\ A' = build_connectivity_matrix(C)
    /\ pc' = "connectivity"
    /\ UNCHANGED <<filtVars, pipeVars, C, C_reproj, K, camera_weights, ranked_track_indices, selVars>>

\* w_cam = compute_camera_weights(C, C_reproj): the connectivity matrix is
\* built inside
Call_compute_camera_weights ==
    /\ pc = "input"
    /\ A' = build_connectivity_matrix(C)
    /\ camera_weights' = compute_camera_weights(C, C_reproj, NoMatrix)
    /\ pc' = "weights"
    /\ UNCHANGED <<filtVars, pipeVars, C, C_reproj, K, ranked_track_indices, selVars>>

\* ranked_track_indices, C_reproj = order_tracks(C, ...)
Call_order_tracks ==
    /\ pc = "input"
    /\ ranked_track_indices' \in order_tracks(C, C_reproj)
    /\ pc' = "ordered"
    /\ UNCHANGED <<filtVars, pipeVars, C, C_reproj, K, A, camera_weights, selVars>>

NextRank ==
    \/ Call_build_connectivity_matrix
    \/ Call_compute_camera_weights
    \/ Call_order_tracks

SpecRank == InitRank /\ [][NextRank]_vars

----------------------------------------------------------------------------
(* the ranking functions applied to tracks with very large errors *)

\* the error tables of M in which all observations of a track have one error,
\* 0 or LargeErr
large_reprojection_error_from_C(M) ==
    {[c \in CamsOf(M) |-> [t \in TracksOf(M) |->
        IF <<c, t>> \notin Triangulable(M) THEN NaN
        ELSE IF t \in hi THEN LargeErr * Scale
        ELSE 0]] : hi \in SUBSET {ct[2] : ct \in Triangulable(M)}}

InitLargeErrors ==
    /\ \E obs \in UNION {ObsMatrices(sh[1], sh[2]) : sh \in RankShapes} :
           C = MkC(obs)
    /\ C_reproj \in large_reprojection_error_from_C(C)
    /\ K = 0
    /\ pc = "input"
    /\ A = NoMatrix
    /\ camera_weights = <<>>
    /\ ranked_track_indices = <<>>
    /\ SelIdle
    /\ FiltIdle
    /\ PipeIdle

SpecLargeErrors == InitLargeErrors /\ [][NextRank]_vars

----------------------------------------------------------------------------
(* build_connectivity_matrix applied to a matrix with an odd number of rows *)

\* shapes (rows, tracks) of matrices whose rows do not pair up
MalformedShapes == {<<3, 2>>, <<5, 2>>}

\* the matrices of a given shape, every cell a pixel coordinate or missing
RawMatrices(rows, m) ==
    {[r \in Range0(rows) |-> [t \in Range0(m) |->
        IF cell[r][t] THEN Pixel(r, t) ELSE NaN]] :
        cell \in [Range0(rows) -> [Range0(m) -> BOOLEAN]]}

InitMalformed ==
    /\ C \in UNION {RawMatrices(sh[1], sh[2]) : sh \in MalformedShapes}
    /\ C_reproj = NoMatrix
    /\ K = 0
    /\ pc = "input"
    /\ A = NoMatrix
    /\ camera_weights = <<>>
    /\ ranked_track_indices = <<>>
    /\ SelIdle
    /\ FiltIdle
    /\ PipeIdle

NextMalformed == Call_build_connectivity_matrix

SpecMalformed == InitMalformed /\ [][NextMalformed]_vars

----------------------------------------------------------------------------
(* select_best_tracks *)

\* shapes (cameras, tracks) of the matrices select_best_tracks is applied to
SelShapes == {<<4, 3>>}

\* the error tables of M in which all observations of a track have one error
reprojection_error_from_C_per_track(M) ==
    {[c \in CamsOf(M) |-> [t \in TracksOf(M) |->
        IF <<c, t>> \notin Triangulable(M) THEN NaN
        ELSE IF t \in hi THEN MaxErr * Scale
        ELSE 0]] : hi \in SUBSET {ct[2] : ct \in Triangulable(M)}}

\* a slip that leaves the selected tracks in the working copy
MaskNothing(M, tracks_already_selected) == M

\* updated_C[:,idx] = np.nan for idx in tracks_already_selected
MaskTracks(M, tracks_already_selected) ==
    [r \in DOMAIN M |-> [t \in DOMAIN M[r] |->
        IF t \in tracks_already_selected THEN NaN ELSE M[r][t]]]

\* Wq: the cameras with an observation of track_idx in updated_C
Wq(M, track_idx) == {j \in CamsOf(M) : ~IsNaN(M[2 * j][track_idx])}

\* Rq = np.arange(n_cam)[A[cam_idx, :]>0]: the neighbours of cam_idx
Rq(conn, cam_idx) == {j \in DOMAIN conn[cam_idx] : conn[cam_idx][j] > 0}

\* a slip that takes every neighbour, whether it observes the track or not
ZqNeighboursOnly(M, conn, cam_idx, track_idx) == Rq(conn, cam_idx)

\* Zq = np.intersect1d(Wq, Rq)
Zq(M, conn, cam_idx, track_idx) == Wq(M, track_idx) \cap Rq(conn, cam_idx)

\* a slip that takes every unselected track with a non-empty Zq, whether or
\* not it brings a new camera
VisitTrackWithoutGain(M, conn, cam_idx, track_idx, st) ==
    IF track_idx \in SeqToSet(st.Sk) THEN st
    ELSE LET Z == Zq(M, conn, cam_idx, track_idx)
         IN  IF Cardinality(Z) > 0
             THEN [next |-> st.next \o SortedSeq(Z \ (Z \cap SeqToSet(st.Ik))),
                   Sk   |-> Append(st.Sk, track_idx),
                   Ik   |-> st.Ik \o SortedSeq(Z)]
             ELSE st

\* the body of the loop over the tracks of a frontier camera; st holds
\* nodes_next_layer_Hk, Sk and Ik (a set becomes a list in ascending order)
VisitTrack(M, conn, cam_idx, track_idx, st) ==
    IF track_idx \in SeqToSet(st.Sk) THEN st
    ELSE LET Z == Zq(M, conn, cam_idx, track_idx)
         IN  IF Cardinality(Z) > 0
                /\ Cardinality(Z) > Cardinality(Z \cap SeqToSet(st.Ik))
             THEN [next |-> st.next \o SortedSeq(Z \ (Z \cap SeqToSet(st.Ik))),
                   Sk   |-> Append(st.Sk, track_idx),
                   Ik   |-> st.Ik \o SortedSeq(Z)]
             ELSE st

\* for track_idx in inverted_track_list.get(cam_idx)
RECURSIVE VisitTracks(_, _, _, _, _)
VisitTracks(M, conn, cam_idx, tracks, st) ==
    IF tracks = <<>> THEN st
    ELSE VisitTracks(M, conn, cam_idx, Tail(tracks),
                     VisitTrack(M, conn, cam_idx, Head(tracks), st))

\* for cam_idx in nodes_last_layer_Hk
RECURSIVE VisitCams(_, _, _, _, _)
VisitCams(M, conn, inv, cams, st) ==
    IF cams = <<>> THEN st
    ELSE VisitCams(M, conn, inv, Tail(cams),
                   VisitTracks(M, conn, Head(cams), inv[Head(cams)], st))

\* the test that ends the growth of the tree: len(list(set(Ik) - set(V))) == 0
\* or h == 0, with V all cameras and h the size of the layer just processed
TreeGrowthEnds(IkNew, V, h) == Cardinality(SeqToSet(IkNew) \ V) = 0 \/ h = 0

\* the states select_best_tracks is entered in, for matrices of given shapes
InitSelOn(shapes) ==
    /\ \E obs \in UNION {ObsMatrices(sh[1], sh[2]) : sh \in shapes} :
           C = MkC(obs)
    /\ C_reproj \in reprojection_error_from_C_per_track(C)
    /\ K \in 1..MaxK
    /\ pc = "select_best_tracks"
    /\ A = NoMatrix
    /\ camera_weights = <<>>
    /\ ranked_track_indices = <<>>
    /\ SelIdle
    /\ FiltIdle
    /\ PipeIdle

InitSel == InitSelOn(SelShapes)

\* lines 141-151: the ranking, the candidate pool, the working copy
Sel_order_tracks ==
    /\ pc = "select_best_tracks"
    /\ ranked_track_indices' \in order_tracks(C, C_reproj)
    /\ remaining_T' = TracksOf(C)
    /\ k' = 0
    /\ S' = <<>>
    /\ updated_C' = C
    /\ pc' = "while"
    /\ UNCHANGED <<filtVars, pipeVars, C, C_reproj, K, A, camera_weights, Sk, Ik, nodes_last_layer_Hk,
                   inverted_track_list, Croot, l, iterate_current_tree>>

\* a slip that masks the caller's array: updated_C = C without the copy
CallerMatrixAliased(caller_C, working_C) == working_C

\* line 151: updated_C = C.copy(), so the assignments of line 158 reach the
\* copy only and the caller's array keeps its values
CallerMatrix(caller_C, working_C) == caller_C

\* lines 153-180: a round starts; mask, connectivity, inverted index, root
Sel_round_start ==
    /\ pc = "while"
    /\ k < K /\ Len(S) < Shape1(C)
    /\ LET tracks_already_selected == TracksOf(C) \ remaining_T
           M == MaskTracks(updated_C, tracks_already_selected)
       IN  /\ updated_C' = M
           /\ A' = build_connectivity_matrix(M)
           /\ inverted_track_list' = get_inverted_track_list(M, ranked_track_indices)
    /\ l' = 1
    /\ camera_weights' = compute_camera_weights(updated_C', C_reproj, A')
    /\ Croot' = ArgMax(camera_weights', NCam(C))
    /\ Sk' = <<>>
    /\ Ik' = <<Croot'>>
    /\ nodes_last_layer_Hk' = <<Croot'>>
    /\ iterate_current_tree' = TRUE
    /\ C' = CallerMatrix(C, updated_C')
    /\ pc' = "tree"
    /\ UNCHANGED <<filtVars, pipeVars, C_reproj, K, ranked_track_indices, remaining_T, S, k>>

\* lines 181-199: one pass of the inner while loop, a layer of the tree
Sel_grow_layer ==
    /\ pc = "tree"
    /\ iterate_current_tree
    /\ LET st == VisitCams(updated_C, A, inverted_track_list, nodes_last_layer_Hk,
                           [next |-> <<>>, Sk |-> Sk, Ik |-> Ik])
           h  == Len(nodes_last_layer_Hk)
       IN  /\ Sk' = st.Sk
           /\ Ik' = st.Ik
           /\ l' = l + 1
           /\ iterate_current_tree' = ~TreeGrowthEnds(st.Ik, CamsOf(C), h)
           /\ nodes_last_layer_Hk' = st.next
    /\ UNCHANGED <<filtVars, pipeVars, rankVars, updated_C, remaining_T, S, inverted_track_list, Croot, k>>

\* a slip that counts a round only when it selected something
Sel_round_end_counts_progress ==
    /\ pc = "tree"
    /\ ~iterate_current_tree
    /\ k' = IF Sk = <<>> THEN k ELSE k + 1
    /\ remaining_T' = remaining_T \ SeqToSet(Sk)
    /\ S' = S \o Sk
    /\ pc' = "while"
    /\ UNCHANGED <<filtVars, pipeVars, C, C_reproj, K, A, camera_weights, ranked_track_indices,
                   updated_C, Sk, Ik, nodes_last_layer_Hk, inverted_track_list,
                   Croot, l, iterate_current_tree>>

\* lines 201-203: the round ends
Sel_round_end ==
    /\ pc = "tree"
    /\ ~iterate_current_tree
    /\ k' = k + 1
    /\ remaining_T' = remaining_T \ SeqToSet(Sk)
    /\ S' = S \o Sk
    /\ pc' = "while"
    /\ UNCHANGED <<filtVars, pipeVars, C, C_reproj, K, A, camera_weights, ranked_track_indices,
                   updated_C, Sk, Ik, nodes_last_layer_Hk, inverted_track_list,
                   Croot, l, iterate_current_tree>>

\* lines 205-210: the loop is left and S returned
Sel_return ==
    /\ pc = "while"
    /\ ~(k < K /\ Len(S) < Shape1(C))
    /\ pc' = "done"
    /\ UNCHANGED <<filtVars, pipeVars, C, C_reproj, K, A, camera_weights, ranked_track_indices, selVars>>

NextSel ==
    \/ Sel_order_tracks
    \/ Sel_round_start
    \/ Sel_grow_layer
    \/ Sel_round_end
    \/ Sel_return

SpecSel == InitSel /\ [][NextSel]_vars

\* shapes of the matrices termination is checked on
FairShapes == {<<3, 3>>}

InitFairSel == InitSelOn(FairShapes)

\* the position of the call in the code of select_best_tracks
selControl == <<pc, iterate_current_tree>>

\* the call is somewhere before its return and moves to another position
Sel_advance ==
    /\ pc \in {"select_best_tracks", "while", "tree"}
    /\ pc' \in {"while", "tree", "done"}
    /\ iterate_current_tree' \in BOOLEAN

\* the scheduling of a sequential function: a call that has not returned does
\* not stay where it is for ever (every state before the return has a step of
\* NextSel, and every such step moves selControl)
FairSpecSel == InitFairSel /\ [][NextSel]_vars /\ WF_selControl(Sel_advance)

----------------------------------------------------------------------------
(* filter_pairwise_matches_inconsistent_utm_coords *)

\* longest list of pairwise matches the filter is applied to
MaxMatches == 3

\* the margin of 10 metres added to the elbow value
UtmMargin == 10

\* the ranking and selection functions are not running
RankIdle ==
    /\ C = NoMatrix
    /\ C_reproj = NoMatrix
    /\ K = 0
    /\ A = NoMatrix
    /\ camera_weights = <<>>
    /\ ranked_track_indices = <<>>

\* UTM coordinates (metres) of the keypoints of two images, image x keypoint
features_utm ==
    [im \in 0..1 |-> [kp \in 0..2 |->
        IF im = 0 THEN (IF kp = 2 THEN <<3, 4>> ELSE <<0, 0>>)
        ELSE (IF kp = 0 THEN <<0, 0>> ELSE IF kp = 1 THEN <<0, 10>> ELSE <<0, 30>>)]]

\* the rows (kp_i, kp_j, im_i, im_j) a list of matches is made of
MatchRows == {<<kp_i, kp_j, 0, 1>> : kp_i \in 0..2, kp_j \in 0..2}

\* the lists of at most n rows
RECURSIVE MatchLists(_)
MatchLists(n) ==
    IF n = 0 THEN {<<>>}
    ELSE MatchLists(n - 1)
         \cup {Append(m, row) : m \in {x \in MatchLists(n - 1) : Len(x) = n - 1},
                                row \in MatchRows}

\* np.linalg.norm(pt_i_utm - pt_j_utm) of one row, in fixed point
UtmDistance(row) ==
    LET pt_i_utm == features_utm[row[3]][row[1]]
        pt_j_utm == features_utm[row[4]][row[2]]
        dx == pt_i_utm[1] - pt_j_utm[1]
        dy == pt_i_utm[2] - pt_j_utm[2]
    IN  ISqrt((dx * dx + dy * dy) * Scale * Scale)

\* all_utm_distances = np.linalg.norm(pt_i_utm - pt_j_utm, axis=1)
RECURSIVE UtmDistances(_)
UtmDistances(rows) ==
    IF rows = <<>> THEN <<>>
    ELSE <<UtmDistance(Head(rows))>> \o UtmDistances(Tail(rows))

\* float addition: NaN propagates
FloatAdd(a, b) == IF IsNaN(a) \/ IsNaN(b) THEN NaN ELSE a + b

\* a slip that compares with <=
FloatLessEq(a, b) == ~IsNaN(a) /\ ~IsNaN(b) /\ a <= b

\* float comparison <: false as soon as one side is NaN
FloatLess(a, b) == ~IsNaN(a) /\ ~IsNaN(b) /\ a < b

\* ba_core.get_elbow_value on a non-empty vector: the values it may return,
\* each a value of the vector
get_elbow_value(err) == SeqToSet(err)

\* pairwise_matches[all_utm_distances < utm_thr]
RECURSIVE RowsBelow(_, _, _)
RowsBelow(rows, dist, t) ==
    IF rows = <<>> THEN <<>>
    ELSE (IF FloatLess(Head(dist), t) THEN <<Head(rows)>> ELSE <<>>)
         \o RowsBelow(Tail(rows), Tail(dist), t)

InitFilter ==
    /\ matches_arg \in MatchLists(MaxMatches)
    /\ pairwise_matches = matches_arg
    /\ all_utm_distances = <<>>
    /\ n_init = 0
    /\ utm_elbow = 0
    /\ utm_thr = 0
    /\ elbow_calls = 0
    /\ error = "none"
    /\ MatchIdle
    /\ pc = "filter_pairwise_matches_inconsistent_utm_coords"
    /\ RankIdle
    /\ SelIdle
    /\ PipeIdle

\* lines 129-140: n_init and the distance of every row
Filter_distances ==
    /\ pc = "filter_pairwise_matches_inconsistent_utm_coords"
    /\ n_init' = Len(pairwise_matches)
    /\ all_utm_distances' = UtmDistances(pairwise_matches)
    /\ pc' = "distances"
    /\ UNCHANGED <<matches_arg, pairwise_matches, utm_elbow, utm_thr, elbow_calls, error>>
    /\ UNCHANGED <<rankVars_but_pc, selVars, pipeVars, matchVars>>

\* line 142 on a non-empty vector: the elbow value is computed and the margin
\* added
Filter_threshold ==
    /\ pc = "distances"
    /\ all_utm_distances # <<>>
    /\ elbow_calls' = elbow_calls + 1
    /\ utm_elbow' \in get_elbow_value(all_utm_distances)
    /\ utm_thr' = FloatAdd(utm_elbow', UtmMargin * Scale)
    /\ pc' = "threshold"
    /\ UNCHANGED <<matches_arg, pairwise_matches, all_utm_distances, n_init, error>>
    /\ UNCHANGED <<rankVars_but_pc, selVars, pipeVars, matchVars>>

\* line 142 on an empty vector: ba_core.get_elbow_value is called all the
\* same; it returns without a value (NaN) or raises
Filter_threshold_empty ==
    /\ pc = "distances"
    /\ all_utm_distances = <<>>
    /\ elbow_calls' = elbow_calls + 1
    /\ \/ /\ utm_elbow' = NaN
          /\ utm_thr' = FloatAdd(utm_elbow', UtmMargin * Scale)
          /\ pc' = "threshold"
          /\ error' = error
       \/ /\ pc' = "raised"
          /\ error' = "get_elbow_value"
          /\ UNCHANGED <<utm_elbow, utm_thr>>
    /\ UNCHANGED <<matches_arg, pairwise_matches, all_utm_distances, n_init>>
    /\ UNCHANGED <<rankVars_but_pc, selVars, pipeVars, matchVars>>

\* line 143: the rows below the threshold are kept
Filter_select ==
    /\ pc = "threshold"
    /\ pairwise_matches' = RowsBelow(pairwise_matches, all_utm_distances, utm_thr)
    /\ pc' = "selected"
    /\ UNCHANGED <<matches_arg, all_utm_distances, n_init, utm_elbow, utm_thr,
                   elbow_calls, error>>
    /\ UNCHANGED <<rankVars_but_pc, selVars, pipeVars, matchVars>>

\* lines 145-153: the statistics and the return; float(removed)/n_init raises
\* ZeroDivisionError when n_init is 0
Filter_return ==
    /\ pc = "selected"
    /\ IF n_init = 0
       THEN /\ pc' = "raised"
            /\ error' = "ZeroDivisionError"
       ELSE /\ pc' = "returned"
            /\ error' = error
    /\ UNCHANGED <<matches_arg, pairwise_matches, all_utm_distances, n_init,
                   utm_elbow, utm_thr, elbow_calls>>
    /\ UNCHANGED <<rankVars_but_pc, selVars, pipeVars, matchVars>>

NextFilter ==
    \/ Filter_distances
    \/ Filter_threshold
    \/ Filter_threshold_empty
    \/ Filter_select
    \/ Filter_return

SpecFilter == InitFilter /\ [][NextFilter]_vars

-----------------------------------------------------------------------------
(* match_kp_within_utm_polygon *)

\* most keypoints of an image, and largest utm coordinate
MaxKp == 2
MaxUtm == 2

\* keypoints lie on the diagonal east = north
KpSites == {<<x, x>> : x \in 0..MaxUtm}

KpLists == UNION {[1..n -> KpSites] : n \in 0..MaxKp}

\* exterior ring of a square, and of the empty polygon, which has no
\* coordinates
Square(lo, hi) == <<<<lo, lo>>, <<hi, lo>>, <<hi, hi>>, <<lo, hi>>, <<lo, lo>>>>

Polygons == {<<>>, Square(0, MaxUtm)}

SeqMin(v) == CHOOSE x \in SeqToSet(v) : \A y \in SeqToSet(v) : x <= y

SeqMax(v) == CHOOSE x \in SeqToSet(v) : \A y \in SeqToSet(v) : x >= y

\* line 72: the two coordinate arrays of the exterior
east_poly(poly) == [n \in 1..Len(poly) |-> poly[n][1]]

north_poly(poly) == [n \in 1..Len(poly) |-> poly[n][2]]

\* lines 83-84, 90-91: strictly inside the rectangle containing the polygon
InRectangle(p, poly) ==
    /\ FloatLess(SeqMin(east_poly(poly)), p[1])
    /\ FloatLess(p[1], SeqMax(east_poly(poly)))
    /\ FloatLess(SeqMin(north_poly(poly)), p[2])
    /\ FloatLess(p[2], SeqMax(north_poly(poly)))

\* lines 85-86, 92-93: all_indices[indices_poly_bool]
indices_poly_int(utm, poly) ==
    SortedSeq({n \in Range0(Len(utm)) : InRectangle(utm[n + 1], poly)})

\* a value the matcher returns
None == [is_None |-> TRUE, rows |-> <<>>]

Rows(r) == [is_None |-> FALSE, rows |-> r]

\* ft_opencv.opencv_match_SIFT / ft_s2p.s2p_match_SIFT on n_i and n_j
\* keypoints: no match, or rows (a, b) that match some keypoints of i, each
\* once, to keypoints of j
MatcherResults(n_i, n_j) ==
    {None} \cup
    {Rows([n \in 1..Len(SortedSeq(X)) |-> <<SortedSeq(X)[n], f[SortedSeq(X)[n]]>>]) :
        X \in (SUBSET Range0(n_i)) \ {{}}, f \in [Range0(n_i) -> Range0(n_j)]}

\* lines 120-122: from the indices inside the polygon to the indices of all
\* the keypoints of the image
ToOriginalIndices(m, ind_i, ind_j) ==
    IF m.is_None THEN None
    ELSE Rows([n \in 1..Len(m.rows) |->
                 <<ind_i[m.rows[n][1] + 1], ind_j[m.rows[n][2] + 1]>>])

InitMatch ==
    /\ utm_i \in KpLists
    /\ utm_j \in KpLists
    /\ utm_polygon \in Polygons
    /\ matches_ij_poly = Rows(<<>>)
    /\ matches_ij = Rows(<<>>)
    /\ matches_arg = <<>>
    /\ pairwise_matches = <<>>
    /\ all_utm_distances = <<>>
    /\ n_init = 0
    /\ utm_elbow = 0
    /\ utm_thr = 0
    /\ elbow_calls = 0
    /\ error = "none"
    /\ pc = "match_kp_within_utm_polygon"
    /\ RankIdle
    /\ SelIdle
    /\ PipeIdle

\* lines 66-124.  min() of line 81 raises ValueError on the empty
\* coordinate array of an empty polygon
match_kp_within_utm_polygon ==
    /\ pc = "match_kp_within_utm_polygon"
    /\ IF Len(utm_polygon) = 0
       THEN /\ pc' = "raised"
            /\ error' = "ValueError"
            /\ UNCHANGED <<matches_ij_poly, matches_ij>>
       ELSE /\ pc' = "returned"
            /\ error' = error
            /\ LET ind_i == indices_poly_int(utm_i, utm_polygon)
                   ind_j == indices_poly_int(utm_j, utm_polygon)
               IN  IF Len(ind_i) = 0 \/ Len(ind_j) = 0
                   THEN /\ matches_ij' = None
                        /\ matches_ij_poly' = matches_ij_poly
                   ELSE /\ matches_ij_poly' \in MatcherResults(Len(ind_i), Len(ind_j))
                        /\ matches_ij' = ToOriginalIndices(matches_ij_poly', ind_i, ind_j)
    /\ UNCHANGED <<rankVars_but_pc, selVars, pipeVars>>
    /\ UNCHANGED <<matches_arg, pairwise_matches, all_utm_distances, n_init>>
    /\ UNCHANGED <<utm_elbow, utm_thr, elbow_calls, utm_i, utm_j, utm_polygon>>

NextMatch == match_kp_within_utm_polygon

SpecMatch == InitMatch /\ [][NextMatch]_vars

----------------------------------------------------------------------------
(* BundleAdjustmentPipeline *)

\* most solver runs, and most cleanings, of one pipeline object
MaxRuns == 2

\* most cameras already adjusted, and most cameras to adjust, of one input
MaxAdj == 1
MaxNew == 2

\* the floor 2.0 of the outlier threshold
OutlierFloor == 2

\* shapes (cameras, tracks) of the matrices the feature tracks come in
PipeShapes == {<<2, 2>>, <<3, 1>>}

\* the correspondence matrices of feature tracks: every track is observed by
\* two cameras or more
FeatureTrackMatrices ==
    {MkC(obs) : obs \in {o \in UNION {ObsMatrices(sh[1], sh[2]) : sh \in PipeShapes} :
                            \A t \in DOMAIN o[0] :
                                Cardinality({c \in DOMAIN o : o[c][t]}) >= 2}}

\* the residuals the solver may leave on an observation: 0.5, 3.0, 5.0
ResidualValues == {Scale \div 2, 3 * Scale, 5 * Scale}

\* the observations of M, track by track, each coded as track * n_cam + camera
Observations(M) ==
    SortedSeq({ct[2] * NCam(M) + ct[1] :
                  ct \in {x \in CamsOf(M) \X TracksOf(M) : ~IsNaN(M[2 * x[1]][x[2]])}})

\* cam_ind and pts_ind of ba_core.set_ba_params: one entry per observation of C
set_ba_params(M) ==
    LET obs == Observations(M)
    IN  [cam_ind |-> [n \in 1..Len(obs) |-> obs[n] % NCam(M)],
         pts_ind |-> [n \in 1..Len(obs) |-> obs[n] \div NCam(M)]]

\* ba_core.remove_outlier_obs: the observations whose residual exceeds thr
\* become missing in C, the rest of C is left as it is
remove_outlier_obs(e, pts, cams, M, t) ==
    [r \in DOMAIN M |-> [u \in DOMAIN M[r] |->
        IF \E n \in 1..Len(e) :
               /\ n <= Len(cams)
               /\ cams[n] = r \div 2 /\ pts[n] = u /\ FloatLess(t, e[n])
        THEN NaN ELSE M[r][u]]]

\* the index arrays reach every observation whose residual exceeds t
OutliersIndexed(e, cams, t) ==
    \A n \in 1..Len(e) : FloatLess(t, e[n]) => n <= Len(cams)

\* a slip that passes the elbow value without the floor
ThrWithoutFloor(elbow) == elbow

\* max(elbow_value, 2.0): Python's max keeps its first argument unless the
\* second is greater
ThrOf(elbow) == IF FloatLess(elbow, OutlierFloor * Scale) THEN OutlierFloor * Scale ELSE elbow

\* scipy.optimize.least_squares ends converged or at the evaluation limit;
\* lines 161-176 use the result in both cases
SolverOutcomes == {"converged", "max_nfev"}

\* lines 24-25: the numbers of adjusted and of new cameras of the input;
\* the matrix of the feature tracks has one pair of rows per camera
CameraSplits ==
    {sp \in (0..MaxAdj) \X (1..MaxNew) : \E sh \in PipeShapes : sp[1] + sp[2] = sh[1]}

\* a slip that calls least_squares again when it did not converge
SolverCallsRetrying(outcome) == IF outcome = "max_nfev" THEN 2 ELSE 1

\* lines 161-163: least_squares is called in one statement, outside any loop
\* and any try block, so once whatever it returns
SolverCalls(outcome) == 1

InitPipe ==
    /\ pc = "CREATED"
    /\ RankIdle
    /\ SelIdle
    /\ FiltIdle
    /\ PipeFresh
    /\ \E sp \in CameraSplits : n_adj = sp[1] /\ n_new = sp[2]

\* lines 79-104: self.C = feature_tracks['C']
compute_feature_tracks ==
    /\ pc = "CREATED"
    /\ C' \in {M \in FeatureTrackMatrices : NCam(M) = n_adj + n_new}
    /\ pc' = "TRACKS_BUILT"
    /\ UNCHANGED <<C_reproj, K, A, camera_weights, ranked_track_indices>>
    /\ UNCHANGED <<selVars, filtVars, pipeVars>>

\* lines 107-138: the parameters of the adjustment are built from self.C
define_ba_parameters ==
    /\ pc \in {"TRACKS_BUILT", "PARAMS_DEFINED", "OPTIMIZED"}
    /\ cam_ind' = set_ba_params(C).cam_ind
    /\ pts_ind' = set_ba_params(C).pts_ind
    /\ pc' = "PARAMS_DEFINED"
    /\ UNCHANGED <<rankVars_but_pc, selVars, filtVars>>
    /\ UNCHANGED <<ba_e, loss, n_solver_runs, n_cleanings, elbow_value, thr>>
    /\ UNCHANGED <<res_status, outVars>>

\* lines 141-177: one call of least_squares; self.ba_e holds a residual per
\* observation
run_ba_optimization(input_loss) ==
    /\ pc \in {"PARAMS_DEFINED", "OPTIMIZED"}
    /\ n_solver_runs < MaxRuns
    /\ Len(cam_ind) > 0
    /\ ba_e' \in [1..Len(cam_ind) -> ResidualValues]
    /\ loss' = input_loss
    /\ res_status' \in SolverOutcomes
    /\ n_solver_runs' = n_solver_runs + SolverCalls(res_status')
    /\ pc' = "OPTIMIZED"
    /\ UNCHANGED <<rankVars_but_pc, selVars, filtVars>>
    /\ UNCHANGED <<cam_ind, pts_ind, n_cleanings, elbow_value, thr, outVars>>

\* lines 179-180
run_ba_softL1 == run_ba_optimization("soft_l1")

\* lines 182-183
run_ba_L2 == run_ba_optimization("linear")

\* lines 185-190: elbow value, removal of the outliers from self.C, and
\* define_ba_parameters on the new self.C.  The method can be called as soon
\* as self.ba_e exists.  When self.ba_e is longer than the index arrays,
\* ba_core.remove_outlier_obs either raises IndexError or, if the arrays reach
\* every outlier, removes the observations they name
clean_outlier_obs ==
    /\ pc \in {"PARAMS_DEFINED", "OPTIMIZED"}
    /\ n_solver_runs > 0
    /\ n_cleanings < MaxRuns
    /\ elbow_value' \in get_elbow_value(ba_e)
    /\ thr' = ThrOf(elbow_value')
    /\ \/ /\ OutliersIndexed(ba_e, cam_ind, thr')
          /\ C' = remove_outlier_obs(ba_e, pts_ind, cam_ind, C, thr')
          /\ cam_ind' = set_ba_params(C').cam_ind
          /\ pts_ind' = set_ba_params(C').pts_ind
          /\ pc' = "PARAMS_DEFINED"
          /\ n_cleanings' = n_cleanings + 1
          /\ error' = error
       \/ /\ Len(ba_e) # Len(cam_ind)
          /\ pc' = "raised"
          /\ error' = "IndexError"
          /\ UNCHANGED <<C, cam_ind, pts_ind, n_cleanings>>
    /\ UNCHANGED <<C_reproj, K, A, camera_weights, ranked_track_indices>>
    /\ UNCHANGED <<selVars, filtVars_but_error, ba_e, loss, n_solver_runs>>
    /\ UNCHANGED <<res_status, outVars>>

NextPipe ==
    \/ compute_feature_tracks
    \/ define_ba_parameters
    \/ run_ba_softL1
    \/ run_ba_L2
    \/ clean_outlier_obs

SpecPipe == InitPipe /\ [][NextPipe]_vars

-----------------------------------------------------------------------------
(* the outputs of the pipeline and run() *)

\* line 197: the camera indices are cast to np.uint8
Uint8 == 256

\* line 245: the fitting error above which the histogram is shown
SubpixelRmse == 1

\* line 236: err_calib of rpc_fit.fit_rpc_from_projection_matrix
RmseValues == {Scale \div 2, SubpixelRmse * Scale, 2 * Scale}

\* lines 197-211: one file per camera n_adj .. n_adj + n_new - 1
save_corrected_matrices ==
    /\ pc \in {"OPTIMIZED", "MATRICES_SAVED", "RPCS_SAVED"}
    /\ P_adj' = P_adj \cup {im_idx % Uint8 : im_idx \in n_adj .. (n_adj + n_new - 1)}
    /\ pc' = "MATRICES_SAVED"
    /\ UNCHANGED <<rankVars_but_pc, selVars, filtVars>>
    /\ UNCHANGED <<cam_ind, pts_ind, ba_e, loss, n_solver_runs, n_cleanings>>
    /\ UNCHANGED <<elbow_value, thr, res_status, n_adj, n_new, RPC_adj, rmse_printed>>

\* lines 245-246: with verbose set, a camera whose error is above 1.0 reads
\* lon, lat, alt, which are local names bound only at line 258
ReadsUnboundLocal(err_calib, verbose, im_idx) ==
    FloatLess(SubpixelRmse * Scale, err_calib[im_idx]) /\ verbose

\* the cameras the loop of lines 231-250 reaches: all of them, or those up to
\* the first one at which line 246 raises
CamerasFitted(err_calib, verbose) ==
    {im_idx \in Range0(n_adj + n_new) :
        \A j \in Range0(im_idx) : ~ReadsUnboundLocal(err_calib, verbose, j)}

\* lines 217-281.  Each camera reached has its error printed (line 237) and
\* its file written (line 240) before line 245 is evaluated.  With verbose
\* set, the loop of lines 254-279 reads self.crop_offsets[im_idx]['x0'],
\* although line 27 stores the keys 'col0' and 'row0'
save_corrected_rpcs(check_rpc_fitting_error, verbose) ==
    /\ pc \in {"OPTIMIZED", "MATRICES_SAVED", "RPCS_SAVED"}
    /\ \E err_calib \in [Range0(n_adj + n_new) -> RmseValues] :
         /\ rmse_printed' = rmse_printed \cup CamerasFitted(err_calib, verbose)
         /\ RPC_adj' = RPC_adj \cup CamerasFitted(err_calib, verbose)
         /\ IF \E im_idx \in Range0(n_adj + n_new) :
                   ReadsUnboundLocal(err_calib, verbose, im_idx)
            THEN pc' = "raised" /\ error' = "UnboundLocalError"
            ELSE IF verbose /\ Shape0(C) \div 2 > 0 /\ Shape1(C) > 0
                 THEN pc' = "raised" /\ error' = "KeyError"
                 ELSE pc' = "RPCS_SAVED" /\ error' = error
    /\ UNCHANGED <<rankVars_but_pc, selVars, filtVars_but_error>>
    /\ UNCHANGED <<cam_ind, pts_ind, ba_e, loss, n_solver_runs, n_cleanings>>
    /\ UNCHANGED <<elbow_value, thr, res_status, n_adj, n_new, P_adj>>

\* the two output methods called with any arguments on an optimized pipeline
Call_save_corrected_rpcs ==
    \E check_rpc_fitting_error \in BOOLEAN, verbose \in BOOLEAN :
        save_corrected_rpcs(check_rpc_fitting_error, verbose)

NextSave ==
    \/ compute_feature_tracks
    \/ define_ba_parameters
    \/ run_ba_softL1
    \/ save_corrected_matrices
    \/ Call_save_corrected_rpcs

SpecSave == InitPipe /\ [][NextSave]_vars

\* lines 611-624: run() calls five methods, each once and in this order;
\* clean_outlier_obs and run_ba_L2 are commented out (lines 619-620)
Run_compute_feature_tracks ==
    /\ pc = "CREATED"
    /\ compute_feature_tracks

Run_define_ba_parameters ==
    /\ pc = "TRACKS_BUILT"
    /\ define_ba_parameters

\* a slip that optimizes with the plain L2 loss
Run_run_ba_L2 ==
    /\ pc = "PARAMS_DEFINED"
    /\ run_ba_L2

Run_run_ba_softL1 ==
    /\ pc = "PARAMS_DEFINED"
    /\ run_ba_softL1

Run_save_corrected_matrices ==
    /\ pc = "OPTIMIZED"
    /\ save_corrected_matrices

\* line 624: both arguments keep their default False
Run_save_corrected_rpcs ==
    /\ pc = "MATRICES_SAVED"
    /\ save_corrected_rpcs(FALSE, FALSE)

run ==
    \/ Run_compute_feature_tracks
    \/ Run_define_ba_parameters
    \/ Run_run_ba_softL1
    \/ Run_save_corrected_matrices
    \/ Run_save_corrected_rpcs

SpecRun == InitPipe /\ [][run]_vars

\* numbers of adjusted cameras around the range of np.uint8
MinManyAdj == 200
MaxManyAdj == 260

\* the feature tracks of n cameras that all observe one track
OneTrackMatrix(n) == MkC([c \in Range0(n) |-> [t \in Range0(1) |-> TRUE]])

\* a pipeline of many cameras after run_ba_softL1: every observation has the
\* residual 0.5 and nothing is saved yet
InitManyCameras ==
    /\ n_adj \in MinManyAdj..MaxManyAdj
    /\ n_new \in 1..MaxNew
    /\ C = OneTrackMatrix(n_adj + n_new)
    /\ cam_ind = [n \in 1..(n_adj + n_new) |-> n - 1]
    /\ pts_ind = [n \in 1..(n_adj + n_new) |-> 0]
    /\ ba_e = [n \in 1..(n_adj + n_new) |-> Scale \div 2]
    /\ loss = "soft_l1"
    /\ res_status = "converged"
    /\ n_solver_runs = 1
    /\ n_cleanings = 0
    /\ elbow_value = 0
    /\ thr = 0
    /\ P_adj = {}
    /\ RPC_adj = {}
    /\ rmse_printed = {}
    /\ pc = "OPTIMIZED"
    /\ C_reproj = NoMatrix
    /\ K = 0
    /\ A = NoMatrix
    /\ camera_weights = <<>>
    /\ ranked_track_indices = <<>>
    /\ SelIdle
    /\ FiltIdle

NextManyCameras == save_corrected_matrices

SpecManyCameras == InitManyCameras /\ [][NextManyCameras]_vars

----------------------------------------------------------------------------
(* what the properties of the ranking functions are stated in *)

\* camera c has a non-missing observation of track t
Observes(M, c, t) == ~IsNaN(M[2 * c][t]) /\ ~IsNaN(M[2 * c + 1][t])

\* the track columns both cameras observe
SharedTracks(M, i, j) == {t \in TracksOf(M) : Observes(M, i, t) /\ Observes(M, j, t)}

\* connectivity degree: the other cameras sharing at least one track
Degree(M, i) == Cardinality({j \in CamsOf(M) \ {i} : SharedTracks(M, i, j) # {}})

\* number of cameras observing track t
TrackLength(M, t) == Cardinality({c \in CamsOf(M) : Observes(M, c, t)})

\* every track camera i observes has a defined cost
CostsDefined(M, Cr, i) ==
    \A t \in TracksOf(M) : Observes(M, i, t) => ~IsNaN(tracks_cost(Cr, t))

\* C3: build_connectivity_matrix returns a square matrix over the cameras that
\* is symmetric, zero on the diagonal, and whose entry (i, j), i # j, is the
\* number of track columns both cameras observe.
C3_ConnectivityExact ==
    pc = "connectivity" =>
        /\ DOMAIN A = CamsOf(C)
        /\ \A i \in CamsOf(C) : DOMAIN A[i] = CamsOf(C) /\ A[i][i] = 0
        /\ \A i, j \in CamsOf(C) :
               /\ A[i][j] = A[j][i]
               /\ i # j => A[i][j] = Cardinality(SharedTracks(C, i, j))

C3_Witness ==
    /\ pc = "connectivity"
    /\ NCam(C) = 3
    /\ A[2][0] = 2
    /\ A[1][0] = 0
    /\ A[2][1] = 1

C5_RankingLengthThenCost ==
    pc = "ordered" =>
        LET N == Shape1(C)
            r == ranked_track_indices
        IN  /\ DOMAIN r = Range0(N)
            /\ \A t \in Range0(N) : r[t] \in Range0(N)
            /\ \A a, b \in Range0(N) :
                   /\ a # b => r[a] # r[b]
                   /\ TrackLength(C, a) > TrackLength(C, b) => r[a] < r[b]
                   /\ ( /\ TrackLength(C, a) = TrackLength(C, b)
                        /\ ~IsNaN(tracks_cost(C_reproj, a))
                        /\ ~IsNaN(tracks_cost(C_reproj, b))
                        /\ tracks_cost(C_reproj, a) < tracks_cost(C_reproj, b) )
                      => r[a] < r[b]

C5_Witness ==
    /\ pc = "ordered"
    /\ \E a, b, c \in TracksOf(C) :
           /\ TrackLength(C, a) > TrackLength(C, b)
           /\ tracks_cost(C_reproj, a) > tracks_cost(C_reproj, b)
           /\ tracks_cost(C_reproj, b) >= 0
           /\ ranked_track_indices[a] < ranked_track_indices[b]
           /\ TrackLength(C, c) = TrackLength(C, b)
           /\ tracks_cost(C_reproj, c) > tracks_cost(C_reproj, b)
           /\ ranked_track_indices[b] < ranked_track_indices[c]

\* the matrix of the scenario: 3 cameras, 4 tracks, track 0 observed by all
\* cameras, each of tracks 1-3 by camera 0 and exactly one other camera
IsScenario ==
    /\ NCam(C) = 3
    /\ Shape1(C) = 4
    /\ \A c \in 0..2 : Observes(C, c, 0)
    /\ \A t \in 1..3 :
           /\ Observes(C, 0, t)
           /\ Cardinality({c \in 1..2 : Observes(C, c, t)}) = 1

\* the tracks camera j shares with camera 0 in the scenario, counted by hand:
\* track 0 and the tracks of 1-3 that camera j observes
HandCount(j) == 1 + Cardinality({t \in 1..3 : Observes(C, j, t)})

\* C8 as stated: in the scenario A[0][1] and A[0][2] are the hand-counted
\* numbers of shared tracks and camera 0 has the highest weight.
C8_Camera0Highest ==
    (pc = "weights" /\ IsScenario) =>
        /\ A[0][1] = HandCount(1)
        /\ A[0][2] = HandCount(2)
        /\ camera_weights[0] >= camera_weights[1]
        /\ camera_weights[0] >= camera_weights[2]

\* C8 as amended: in the scenario A[0][1] and A[0][2] are the hand-counted
\* numbers of shared tracks; all three cameras have connectivity degree 2, so
\* every weight lies between 2 and 3 and camera 0 has the highest weight only
\* as far as the costs decide: its weight is at least that of every camera
\* whose cost is not lower than its own.
C8_Camera0HighestByCost ==
    (pc = "weights" /\ IsScenario) =>
        /\ A[0][1] = HandCount(1)
        /\ A[0][2] = HandCount(2)
        /\ \A c \in 0..2 :
               /\ Degree(C, c) = 2
               /\ camera_weights[c] >= 2 * Scale
               /\ camera_weights[c] <= 3 * Scale
        /\ \A j \in 1..2 :
               costC(C, C_reproj, A, 0) <= costC(C, C_reproj, A, j)
                   => camera_weights[0] >= camera_weights[j]

C8_Witness ==
    /\ pc = "weights"
    /\ IsScenario
    /\ A[0][1] = 3
    /\ A[0][2] = 2
    /\ camera_weights[0] > camera_weights[1]
    /\ camera_weights[0] = camera_weights[2]

----------------------------------------------------------------------------
(* properties of select_best_tracks *)

\* S holds no track twice
NoDuplicates(seq) == Cardinality(SeqToSet(seq)) = Len(seq)

\* seq1 is an initial segment of seq2
IsPrefix(seq1, seq2) ==
    /\ Len(seq1) <= Len(seq2)
    /\ SubSeq(seq2, 1, Len(seq1)) = seq1

\* C1: at every point of select_best_tracks the list S holds no track id twice,
\* every element of S is a column index of the input matrix, |S| is at most the
\* number of track columns, and a step never shortens S (it only appends)
C1_SelectionGrowsWithoutRepeats ==
    /\ [](/\ NoDuplicates(S)
          /\ SeqToSet(S) \subseteq TracksOf(C)
          /\ Len(S) <= Shape1(C))
    /\ [][IsPrefix(S, S') /\ Len(S') >= Len(S)]_vars

\* C1: a second round has added tracks to those of the first round
C1_Witness ==
    /\ pc = "done"
    /\ k = 2
    /\ Sk # <<>>
    /\ Len(S) > Len(Sk)

\* C2: select_best_tracks reaches its return for every input; k never exceeds
\* K and goes up by one at the end of every round, with or without tracks in
\* Sk; with every track selected the loop is left at once; and the growth of a
\* tree, once started, ends
C2_Terminates ==
    /\ <>(pc = "done")
    /\ [](k <= K)
    /\ [][pc = "tree" /\ pc' = "while" => k' = k + 1]_vars
    /\ [][pc = "while" /\ Len(S) >= Shape1(C) => pc' = "done"]_vars
    /\ ((pc = "tree") ~> (pc = "while"))

\* C2: the function has returned after K rounds, the last of which selected
\* nothing, with tracks left unselected
C2_Witness ==
    /\ pc = "done"
    /\ k = K
    /\ Sk = <<>>
    /\ Len(S) > 0
    /\ Len(S) < Shape1(C)

\* every pair of cameras shares a track
CompleteGraph(M) ==
    \A i, j \in CamsOf(M) : i # j => SharedTracks(M, i, j) # {}

\* the tree of the round spans all cameras
TreeSpans == SeqToSet(Ik) = CamsOf(C)

\* C9: with K = 1 and a complete connectivity graph, the returned S is a
\* strict subset of the tracks unless the tree spans all cameras, and when the
\* tree spans all cameras every camera observes a track of S
C9_CompleteGraphOneRound ==
    (pc = "done" /\ K = 1 /\ CompleteGraph(C)) =>
        /\ ~TreeSpans => (SeqToSet(S) # TracksOf(C))
        /\ TreeSpans => \A c \in CamsOf(C) : \E t \in SeqToSet(S) : Observes(C, c, t)

\* C9: one round on a complete graph has returned a spanning tree from two or
\* more tracks, with a track left out
C9_Witness ==
    /\ pc = "done"
    /\ K = 1
    /\ CompleteGraph(C)
    /\ TreeSpans
    /\ Len(S) >= 2
    /\ SeqToSet(S) # TracksOf(C)

----------------------------------------------------------------------------
(* properties of filter_pairwise_matches_inconsistent_utm_coords *)

\* the n-th smallest element of a set of indices
NthSmallest(idx, n) == CHOOSE i \in idx : Cardinality({j \in idx : j <= i}) = n

\* out holds the rows of in at the indices idx, in their order in in
IsSelection(out, in, idx) ==
    /\ Len(out) = Cardinality(idx)
    /\ \A n \in 1..Len(out) : out[n] = in[NthSmallest(idx, n)]

\* the call was given a list of matches and has not raised
FilterReturned == pc = "returned"

\* all rows of the argument are at distance d
UniformDistance(d) == \A n \in 1..Len(matches_arg) : UtmDistance(matches_arg[n]) = d

\* C6: called with an empty list of matches, the filter never calls the elbow
\* computation, never raises, and does not end otherwise than by returning the
\* empty list
C6_EmptyInputReturnedUntouched ==
    (pc \in {"distances", "threshold", "selected", "returned", "raised"}
     /\ matches_arg = <<>>) =>
        /\ elbow_calls = 0
        /\ error = "none"
        /\ pc # "raised"
        /\ pairwise_matches = matches_arg

\* C7 as stated: on a non-empty list the rows discarded are exactly those whose
\* distance exceeds the threshold elbow + 10, the others are kept in their order
C7_DiscardsOnlyAboveThreshold ==
    (FilterReturned /\ matches_arg # <<>>) =>
        /\ utm_thr = utm_elbow + UtmMargin * Scale
        /\ IsSelection(pairwise_matches, matches_arg,
               {n \in 1..Len(matches_arg) : UtmDistance(matches_arg[n]) <= utm_thr})

\* C7, amended: on a non-empty list the threshold is elbow + 10 and the rows
\* kept are exactly those whose distance is strictly below it, in their order
\* (a row at the threshold is discarded); when all distances equal d and the
\* elbow value is d, the threshold is d + 10 and nothing is removed
C7_KeepsStrictlyBelowThreshold ==
    (FilterReturned /\ matches_arg # <<>>) =>
        /\ utm_thr = utm_elbow + UtmMargin * Scale
        /\ IsSelection(pairwise_matches, matches_arg,
               {n \in 1..Len(matches_arg) : UtmDistance(matches_arg[n]) < utm_thr})
        /\ \A n \in 1..Len(matches_arg) :
               UniformDistance(UtmDistance(matches_arg[n])) /\ utm_elbow = UtmDistance(matches_arg[n])
                   => /\ utm_thr = UtmDistance(matches_arg[n]) + UtmMargin * Scale
                      /\ pairwise_matches = matches_arg

\* C7: the filter has returned some rows of a longer list and discarded a row
\* whose distance equals the threshold
C7_Witness ==
    /\ FilterReturned
    /\ Len(pairwise_matches) > 0
    /\ Len(pairwise_matches) < Len(matches_arg)
    /\ \E n \in 1..Len(matches_arg) : UtmDistance(matches_arg[n]) = utm_thr

----------------------------------------------------------------------------
(* properties of BundleAdjustmentPipeline *)

\* this step is a call of clean_outlier_obs
IsCleaning == n_cleanings' = n_cleanings + 1

\* observation n of the parameter block has a residual above t
Exceeds(n, t) == ba_e[n] > t

\* C10: every call of clean_outlier_obs passes the threshold max(elbow, 2.0),
\* which is at least 2.0 and is the elbow value when that is at least 2.0;
\* the new C is the old C without the observations whose residual exceeds the
\* threshold; the parameter block is the one of the new C and the position is
\* PARAMS_DEFINED; the solver is not run and its residuals are not renewed
C10_CleaningThresholdAndRebuild ==
    [][IsCleaning =>
        /\ elbow_value' \in SeqToSet(ba_e)
        /\ thr' >= OutlierFloor * Scale
        /\ elbow_value' >= OutlierFloor * Scale => thr' = elbow_value'
        /\ elbow_value' < OutlierFloor * Scale => thr' = OutlierFloor * Scale
        /\ OutliersIndexed(ba_e, cam_ind, thr')
        /\ \A n \in 1..Len(cam_ind) :
               /\ Exceeds(n, thr') => IsNaN(C'[2 * cam_ind[n]][pts_ind[n]])
               /\ ~Exceeds(n, thr') => C'[2 * cam_ind[n]][pts_ind[n]] = C[2 * cam_ind[n]][pts_ind[n]]
        /\ \A r \in DOMAIN C : \A t \in DOMAIN C[r] : IsNaN(C[r][t]) => IsNaN(C'[r][t])
        /\ cam_ind' = set_ba_params(C').cam_ind
        /\ pts_ind' = set_ba_params(C').pts_ind
        /\ pc' = "PARAMS_DEFINED"
        /\ n_solver_runs' = n_solver_runs
        /\ ba_e' = ba_e]_vars

\* C10: a cleaning with an elbow value below 2.0 has removed observations and
\* left others, and the parameter block has been rebuilt without a solver run
C10_Witness ==
    /\ n_cleanings = 1
    /\ n_solver_runs = 1
    /\ pc = "PARAMS_DEFINED"
    /\ elbow_value < OutlierFloor * Scale
    /\ thr = OutlierFloor * Scale
    /\ Len(cam_ind) > 0
    /\ Len(cam_ind) < Len(ba_e)

----------------------------------------------------------------------------
(* properties of the functions on malformed input *)

\* C11: build_connectivity_matrix, given a matrix with an odd number of rows,
\* reports an error and returns no connectivity matrix
C11_OddRowCountReported ==
    (pc = "connectivity" /\ Shape0(C) % 2 = 1) =>
        /\ error # "none"
        /\ A = NoMatrix

----------------------------------------------------------------------------
(* properties of the pipeline's call sequences *)

\* this step is a call of clean_outlier_obs, completed or ended by an error
IsCleanCall ==
    \/ n_cleanings' = n_cleanings + 1
    \/ error = "none" /\ error' = "IndexError"

\* C12: every call of clean_outlier_obs, a second consecutive one included,
\* reads a residual vector ba_e with exactly one entry per observation of the
\* index arrays pts_ind and cam_ind
C12_CleaningReadsMatchingResiduals ==
    [][IsCleanCall =>
        /\ Len(ba_e) = Len(cam_ind)
        /\ Len(ba_e) = Len(pts_ind)]_vars

\* a step of run_ba_optimization: it alone sets the outcome of the solver
IsOptimization == pc' = "OPTIMIZED" /\ pc = "PARAMS_DEFINED"

\* C13: the solver is never retried.  Every call of run_ba_optimization
\* invokes least_squares exactly once, whether it converged or not, and when
\* run() has finished the solver has been invoked exactly once in total.
C13_SolverInvokedOncePerCall ==
    [][/\ IsOptimization => n_solver_runs' = n_solver_runs + 1
       /\ pc' = "RPCS_SAVED" => n_solver_runs' = 1]_vars

\* run() finished although the solver did not converge
C13_Witness ==
    /\ pc = "RPCS_SAVED"
    /\ res_status = "max_nfev"
    /\ n_solver_runs = 1

\* the inputs of match_kp_within_utm_polygon have no overlap or no match
NoOverlapOrNoMatch ==
    \/ Len(utm_polygon) = 0
    \/ \A n \in 1..Len(utm_i) : ~InRectangle(utm_i[n], utm_polygon)
    \/ \A n \in 1..Len(utm_j) : ~InRectangle(utm_j[n], utm_polygon)
    \/ matches_ij_poly.is_None

\* C14: match_kp_within_utm_polygon returns None instead of raising when the
\* intersection polygon is empty, when no keypoint of image i or of image j
\* lies inside the rectangle containing the polygon, and when the external
\* matcher returns no match.
C14_NoOverlapReturnsNone ==
    (pc \in {"returned", "raised"} /\ NoOverlapOrNoMatch)
        => (pc = "returned" /\ error = "none" /\ matches_ij.is_None)

\* save_corrected_rpcs has ended, by returning or by raising
RpcsSaveEnded == pc = "RPCS_SAVED" \/ error \in {"UnboundLocalError", "KeyError"}

\* C15: save_corrected_rpcs writes the camera model file of every camera
\* 0 .. n_adj + n_new - 1 whatever the fitting errors are, for both settings
\* of the verbose flag: an error above 1.0 stops neither that camera's file
\* nor the files of the remaining cameras.
C15_EveryCameraModelPersisted ==
    RpcsSaveEnded => Range0(n_adj + n_new) \subseteq RPC_adj

\* C16: build_connectivity_matrix and select_best_tracks leave the caller's
\* correspondence matrix as it was: no step of the selection, the masking of
\* the selected tracks and the connectivity count of each round included,
\* changes C.
C16_CallerMatrixUntouched == [][C' = C]_vars

\* the selection has returned after masking tracks in its working copy
C16_Witness ==
    /\ pc = "done"
    /\ k > 1
    /\ A # NoMatrix
    /\ updated_C # C

\* the inner loop of the round has been left
GrowthStopped == pc = "tree" /\ ~iterate_current_tree

\* C17: the tree of a round grows in breadth-first layers: the cameras added
\* while one layer is processed are the frontier of the next layer, and the
\* growth stops only when that frontier is empty or every camera is in Ik.
C17_GrowthStopsOnlyWhenExhausted ==
    GrowthStopped =>
        \/ Len(nodes_last_layer_Hk) = 0
        \/ CamsOf(C) \subseteq SeqToSet(Ik)

\* a pass of the inner loop over the frontier nodes_last_layer_Hk
IsGrowLayer == pc = "tree" /\ iterate_current_tree

\* the cameras that observe track t in the working matrix and are neighbours
\* of camera c in the connectivity matrix
ObserversAmongNeighbours(c, t) ==
    {d \in CamsOf(updated_C) : Observes(updated_C, d, t) /\ A[c][d] > 0}

\* the cameras in Ik when the n-th track of the pass is added: those at the
\* start of the pass and those brought by the tracks added before it
IkWhenAdded(n, newSk) ==
    SeqToSet(Ik) \cup
    UNION {ObserversAmongNeighbours(c, newSk[m]) :
               c \in SeqToSet(nodes_last_layer_Hk), m \in 1..(n - 1)}

\* C18: a track enters Sk only while a frontier camera c that observes it is
\* processed, only if it is not yet in Sk, and only if Zq, the cameras that
\* observe it and are neighbours of c, is non-empty and holds a camera not yet
\* in Ik; all the cameras of Zq are then in Ik.
C18_TrackAddedOnlyWithNewCamera ==
    [][IsGrowLayer =>
        /\ NoDuplicates(Sk')
        /\ \A n \in (Len(Sk) + 1)..Len(Sk') :
             \E c \in SeqToSet(nodes_last_layer_Hk) :
                 /\ Observes(updated_C, c, Sk'[n])
                 /\ ObserversAmongNeighbours(c, Sk'[n]) # {}
                 /\ ~(ObserversAmongNeighbours(c, Sk'[n]) \subseteq IkWhenAdded(n, Sk'))
                 /\ ObserversAmongNeighbours(c, Sk'[n]) \subseteq SeqToSet(Ik')]_vars

\* a pass added two tracks, the second one bringing a camera the first did not
C18_Witness ==
    /\ GrowthStopped
    /\ Len(Sk) >= 2
    /\ Cardinality(SeqToSet(Ik)) >= 3

\* the caller's matrix with the tracks selected in the earlier rounds masked
MaskedBySelection ==
    [r \in DOMAIN C |-> [t \in DOMAIN C[r] |->
        IF t \in SeqToSet(S) THEN NaN ELSE C[r][t]]]

\* the cameras with a positive entry in row c of the connectivity matrix of
\* the round, counted
UnselectedDegree(c) == Cardinality({d \in CamsOf(C) \ {c} : A[c][d] > 0})

\* a round has just started: S holds the tracks of the earlier rounds and the
\* tree is still its root
RoundStarted == pc = "tree" /\ iterate_current_tree

\* C19: at the start of every round the connectivity matrix, the inverted
\* track index and the camera weights are derived from the working matrix in
\* which the tracks selected in the earlier rounds are masked: no such track
\* is in a camera's candidate list, none is counted in an entry of the
\* connectivity matrix, and the connectivity term of every weight counts only
\* the cameras reached through unselected tracks.
C19_RoundUsesMaskedMatrix ==
    RoundStarted =>
        /\ updated_C = MaskedBySelection
        /\ \A i, j \in CamsOf(C) :
               i < j => /\ A[i][j] = Cardinality(SharedTracks(C, i, j) \ SeqToSet(S))
                        /\ A[j][i] = A[i][j]
        /\ \A c \in CamsOf(C) :
               SeqToSet(inverted_track_list[c]) =
                   {t \in TracksOf(C) \ SeqToSet(S) : Observes(C, c, t)}
        /\ \A c \in CamsOf(C) :
               \/ IsNaN(camera_weights[c])
               \/ /\ camera_weights[c] >= UnselectedDegree(c) * Scale
                  /\ camera_weights[c] <= UnselectedDegree(c) * Scale + Scale
                  /\ UnselectedDegree(c) = 0 => camera_weights[c] = Scale

\* a second round runs on a matrix in which a selected track is masked and
\* was shared by two cameras
C19_Witness ==
    /\ RoundStarted
    /\ k > 0
    /\ \E t \in SeqToSet(S) : \E i, j \in CamsOf(C) :
           i # j /\ t \in SharedTracks(C, i, j) /\ A[i][j] > 0

\* the stages in the order the claim gives them, by the state each one leaves
StageOrder ==
    <<"CREATED", "TRACKS_BUILT", "PARAMS_DEFINED", "OPTIMIZED",
      "MATRICES_SAVED", "RPCS_SAVED">>

\* some output file exists
OutputPersisted(P, R) == P # {} \/ R # {}

\* C20: run() builds the tracks, defines the parameters, optimizes, saves the
\* projection matrices and saves the camera models, in this order; the solver
\* runs with the soft-L1 loss, no outlier cleaning is performed, and no output
\* file is written before the optimization has completed.
C20_RunStagesInOrder ==
    [][/\ \E n \in 1..(Len(StageOrder) - 1) :
              pc = StageOrder[n] /\ pc' = StageOrder[n + 1]
       /\ pc' = "TRACKS_BUILT" => C' # NoMatrix
       /\ pc' = "PARAMS_DEFINED" => Len(cam_ind') > 0 /\ ba_e' = <<>>
       /\ pc' = "OPTIMIZED" => loss' = "soft_l1" /\ Len(ba_e') = Len(cam_ind)
       /\ pc' = "MATRICES_SAVED" => P_adj' # {} /\ RPC_adj' = {}
       /\ pc' = "RPCS_SAVED" => RPC_adj' # {}
       /\ pc # "CREATED" => C' = C
       /\ n_cleanings' = 0
       /\ OutputPersisted(P_adj', RPC_adj') => (n_solver_runs = 1 /\ Len(ba_e) > 0)]_vars

\* run() has ended with both kinds of output written after one soft-L1
\* optimization
C20_Witness ==
    /\ pc = "RPCS_SAVED"
    /\ loss = "soft_l1"
    /\ n_cleanings = 0
    /\ P_adj = n_adj .. (n_adj + n_new - 1)
    /\ RPC_adj = Range0(n_adj + n_new)

\* camera i observes, in the working matrix, a track whose cost is undefined:
\* no camera has a reprojection error for it
ObservesUndefinedCost(i) ==
    \E t \in TracksOf(updated_C) :
        Observes(updated_C, i, t) /\ IsNaN(tracks_cost(C_reproj, t))

\* C21: sparse data is tolerated in camera scoring.  When a camera observes a
\* track of undefined cost, compute_camera_weights still returns a defined,
\* non-negative weight for every camera, and the root of the round is a
\* camera of largest weight.
C21_UndefinedCostTolerated ==
    (RoundStarted /\ \E i \in CamsOf(C) : ObservesUndefinedCost(i)) =>
        /\ \A i \in CamsOf(C) :
               ~IsNaN(camera_weights[i]) /\ camera_weights[i] >= 0
        /\ \A i \in CamsOf(C) : camera_weights[i] <= camera_weights[Croot]

\* C22: save_corrected_matrices writes, for any number of cameras, one file
\* for every camera i with n_adj <= i < n_adj + n_new, named after image i and
\* holding the projection matrix of camera i and the size of image i, and no
\* other file.
C22_OneFilePerNewCamera ==
    pc = "MATRICES_SAVED" => P_adj = n_adj .. (n_adj + n_new - 1)

\* C23: every track added to Sk brings at least one camera that Ik did not
\* hold, so a round selects at most (camera count - 1) tracks and S never
\* holds more than K * (camera count - 1) tracks.
C23_EachTrackAddsCamera ==
    [][/\ IsGrowLayer =>
            /\ \A n \in (Len(Sk) + 1)..Len(Sk') :
                   /\ IkWhenAdded(n, Sk') \subseteq IkWhenAdded(n + 1, Sk')
                   /\ IkWhenAdded(n, Sk') # IkWhenAdded(n + 1, Sk')
            /\ IkWhenAdded(Len(Sk') + 1, Sk') = SeqToSet(Ik')
            /\ Cardinality(SeqToSet(Ik')) - Cardinality(SeqToSet(Ik))
                   >= Len(Sk') - Len(Sk)
       /\ Len(Sk') <= NCam(C) - 1
       /\ Len(S') <= K * (NCam(C) - 1)]_vars

\* a round has selected as many tracks as there are cameras besides the root,
\* and has left a track that the root observes
C23_Witness ==
    /\ GrowthStopped
    /\ Len(Sk) = NCam(C) - 1
    /\ SeqToSet(Ik) = CamsOf(C)
    /\ \E t \in TracksOf(C) \ SeqToSet(Sk) : Observes(updated_C, Croot, t)

\* C24 as stated: a camera of connectivity degree n whose tracks all have a
\* defined, non-negative cost has a weight in the interval (n, n + 1], so a
\* camera of strictly larger degree never has a smaller weight.
C24_WeightAboveDegree ==
    pc = "weights" =>
        /\ \A i \in CamsOf(C) :
               CostsDefined(C, C_reproj, i) =>
                   /\ camera_weights[i] > Degree(C, i) * Scale
                   /\ camera_weights[i] <= (Degree(C, i) + 1) * Scale
        /\ \A i, j \in CamsOf(C) :
               (/\ CostsDefined(C, C_reproj, i)
                /\ CostsDefined(C, C_reproj, j)
                /\ Degree(C, i) > Degree(C, j)) =>
                   camera_weights[i] >= camera_weights[j]

\* C24 as amended: a camera of connectivity degree n whose tracks all have a
\* defined, non-negative cost has a weight in the closed interval [n, n + 1],
\* the lower end being reached when the cost is so large that exp(-cost) is
\* lost in the sum; a camera of strictly larger degree never has a smaller
\* weight, and has an equal one at most.
C24_WeightWithinDegreeBand ==
    pc = "weights" =>
        /\ \A i \in CamsOf(C) :
               CostsDefined(C, C_reproj, i) =>
                   /\ camera_weights[i] >= Degree(C, i) * Scale
                   /\ camera_weights[i] <= (Degree(C, i) + 1) * Scale
        /\ \A i, j \in CamsOf(C) :
               (/\ CostsDefined(C, C_reproj, i)
                /\ CostsDefined(C, C_reproj, j)
                /\ Degree(C, i) > Degree(C, j)) =>
                   camera_weights[i] >= camera_weights[j]

\* a camera of degree 2 with a very large cost and a camera of degree 1 with
\* cost 0 have the same weight
C24_Witness ==
    /\ pc = "weights"
    /\ \E i, j \in CamsOf(C) :
           /\ CostsDefined(C, C_reproj, i)
           /\ CostsDefined(C, C_reproj, j)
           /\ Degree(C, i) = 2
           /\ Degree(C, j) = 1
           /\ \E t \in TracksOf(C) :
                  Observes(C, i, t) /\ tracks_cost(C_reproj, t) = LargeErr * Scale
           /\ \A t \in TracksOf(C) :
                  Observes(C, j, t) => tracks_cost(C_reproj, t) = 0
           /\ camera_weights[i] = 2 * Scale
           /\ camera_weights[j] = 2 * Scale

============================================================================
